---- MODULE Spec2Model ----
(***************************************************************************)
(* Model of the visual-testing API server (src/server.js): the capture     *)
(* handler POST /api/capture, the compare handler POST /api/compare and    *)
(* the uploads directory they share.                                       *)
(*                                                                         *)
(* Strings that are used as paths (testId, directories) are modelled as    *)
(* the sequence of their "/"-separated segments, so that path.join's       *)
(* normalisation of "." and ".." is computed rather than assumed.          *)
(***************************************************************************)
EXTENDS Integers, Sequences, FiniteSets, TLC

VARIABLES files, dirs, reqs, browsers, resp, log

vars == <<files, dirs, reqs, browsers, resp, log>>

----------------------------------------------------------------------------
(* Bounds *)

\* tallest full-page image page.screenshot produces
MaxH == 2
\* most pixels (width * height) of a stored image the comparator is run on
MaxPixels == 3
\* browser processes the host can run at once; launch fails beyond it
MaxBrowsers == 2
\* number of calls the sequential client issues
MaxCalls == 3

----------------------------------------------------------------------------
(* Request inputs *)

\* concurrent in-flight capture handlers
Slots == {"r1", "r2"}

\* "" is an absent (or empty) field of req.body
Urls == {"", "https://example.com"}
\* the URLs the sequential client captures
SeqUrls == {"https://example.com", "https://example.com/v2"}
Times == {"", "before", "after", "later"}
\* <<>> is an absent (or empty) testId; "t1" and "../before/t1"
TestIds == { <<>>, <<"t1">>, <<"..", "before", "t1">> }

Labels == {"before", "after"}

----------------------------------------------------------------------------
(* Images *)

NoImg == [w |-> 0, h |-> 0, px |-> 0]

\* a raster of w x h pixels of which the first px are inked
ImagesUpTo(area) ==
    { i \in [w : 1..area, h : 1..area, px : 0..area] :
        i.w * i.h <= area /\ i.px <= i.w * i.h }

\* what a full-page screenshot can be: as wide as the viewport (one column
\* in the model's unit), as tall as the page, blank or inked all over
RenderImages ==
    { i \in ImagesUpTo(MaxH) : i.w = 1 /\ i.px \in {0, i.w * i.h} }

\* what PNG.sync.read can find in the uploads directory
StoreImages == ImagesUpTo(MaxPixels)

Abs(x) == IF x < 0 THEN -x ELSE x

\* number of pixel positions at which the two rasters differ
pixelmatch(img1, img2) == Abs(img1.px - img2.px)

----------------------------------------------------------------------------
(* Paths *)

Dirname == <<"app">>

RECURSIVE Normalize(_, _)
Normalize(done, rest) ==
    IF rest = <<>> THEN done
    ELSE LET x == Head(rest) IN
         IF x = "." THEN Normalize(done, Tail(rest))
         ELSE IF x = ".."
              THEN Normalize(IF done = <<>> THEN <<>>
                             ELSE SubSeq(done, 1, Len(done) - 1), Tail(rest))
              ELSE Normalize(Append(done, x), Tail(rest))

\* path.join of directory segments
PathJoin(a, b) == Normalize(<<>>, a \o b)

\* path.join(dir, `${testId}.png`): the last segment of testId carries the
\* extension, so it is a literal name and never "." or ".."
FileJoin(dir, testId) ==
    [dir  |-> PathJoin(dir, SubSeq(testId, 1, Len(testId) - 1)),
     stem |-> testId[Len(testId)],
     ext  |-> "png"]

baseDir == PathJoin(Dirname, <<"uploads">>)
timeDir(time) == PathJoin(baseDir, <<time>>)
diffDir == PathJoin(baseDir, <<"diff">>)

filepath(time, testId) == FileJoin(timeDir(time), testId)
beforePath(testId) == FileJoin(PathJoin(baseDir, <<"before">>), testId)
afterPath(testId) == FileJoin(PathJoin(baseDir, <<"after">>), testId)
diffPath(testId) == FileJoin(PathJoin(baseDir, <<"diff">>), testId)

\* `/uploads/${label}/${testId}.png`: a template string, not normalised
UploadUrl(label, testId) ==
    [segs |-> <<"uploads", label>> \o testId, ext |-> "png"]

existsSync(p) == p \in DOMAIN files

\* a write that keeps a file that is already there (flag 'wx')
WriteFile_exclusive(p, img) ==
    [q \in (DOMAIN files) \cup {p} |->
        IF q \in DOMAIN files THEN files[q] ELSE img]

\* fs write of a whole file, replacing what is there
WriteFile(p, img) ==
    [q \in (DOMAIN files) \cup {p} |-> IF q = p THEN img ELSE files[q]]

----------------------------------------------------------------------------
(* toFixed(2) of num / den * 100 *)

Hundredths_truncated(num, den) == (num * 10000) \div den

\* the value in hundredths, rounded to nearest (half up)
Hundredths(num, den) == (2 * num * 10000 + den) \div (2 * den)

\* the decimal string: integer part and the two fraction digits
toFixed2(num, den) ==
    LET c == Hundredths(num, den)
    IN  << c \div 100, (c % 100) \div 10, c % 10 >>

\* the number a toFixed(2) string denotes, in hundredths
ParseFixed2(s) == s[1] * 100 + s[2] * 10 + s[3]

----------------------------------------------------------------------------
(* State *)

Idle == [pc |-> "idle", url |-> "", time |-> "", testId |-> <<>>]

NoResp == [op |-> "none", status |-> 0]

Init ==
    /\ files = << >>
    /\ dirs = {}
    /\ reqs = [s \in Slots |-> Idle]
    /\ browsers = 0
    /\ resp = NoResp
    /\ log = << >>

----------------------------------------------------------------------------
(* POST /api/capture *)

InvalidUrlOrTime_noIncludes(url, time) == url = "" \/ time = ""

\* !url || !time || !['before','after'].includes(time)
InvalidUrlOrTime(url, time) == url = "" \/ time = "" \/ time \notin Labels

\* !testId
MissingTestId(testId) == testId = <<>>

\* [baseDir, timeDir, diffDir].forEach(mkdirSync recursive)
EnsureDirs(time) == dirs \cup {baseDir, timeDir(time), diffDir}

\* a catch block that also removes the destination file
CaptureError_unlink(s) ==
    LET fp == filepath(reqs[s].time, reqs[s].testId) IN
    /\ resp' = [op |-> "capture", status |-> 500,
                error |-> "Failed to capture screenshot"]
    /\ reqs' = [reqs EXCEPT ![s] = Idle]
    /\ files' = [q \in (DOMAIN files) \ {fp} |-> files[q]]
    /\ UNCHANGED browsers

\* the catch block: 500, nothing else is touched
CaptureError(s) ==
    /\ resp' = [op |-> "capture", status |-> 500,
                error |-> "Failed to capture screenshot"]
    /\ reqs' = [reqs EXCEPT ![s] = Idle]
    /\ UNCHANGED <<files, browsers>>

Advance(s, next) == reqs' = [reqs EXCEPT ![s].pc = next]

\* the handler up to its first await: validation and directory creation
CaptureRequest(s, url, time, testId) ==
    /\ reqs[s].pc = "idle"
    /\ IF InvalidUrlOrTime(url, time)
       THEN /\ resp' = [op |-> "capture", status |-> 400,
                        error |-> "Missing url or invalid time"]
            /\ UNCHANGED <<files, dirs, reqs, browsers>>
       ELSE IF MissingTestId(testId)
       THEN /\ resp' = [op |-> "capture", status |-> 400,
                        error |-> "testId is required"]
            /\ UNCHANGED <<files, dirs, reqs, browsers>>
       ELSE /\ dirs' = EnsureDirs(time)
            /\ reqs' = [reqs EXCEPT ![s] =
                   [pc |-> "launch", url |-> url, time |-> time,
                    testId |-> testId]]
            /\ UNCHANGED <<files, browsers, resp>>

\* await puppeteer.launch(...)
Launch(s) ==
    /\ reqs[s].pc = "launch"
    /\ UNCHANGED dirs
    /\ \/ /\ browsers < MaxBrowsers
          /\ browsers' = browsers + 1
          /\ Advance(s, "newPage")
          /\ UNCHANGED <<files, resp>>
       \/ CaptureError(s)

\* await browser.newPage()
NewPage(s) ==
    /\ reqs[s].pc = "newPage"
    /\ UNCHANGED dirs
    /\ \/ /\ Advance(s, "setViewport")
          /\ UNCHANGED <<files, browsers, resp>>
       \/ CaptureError(s)

\* await page.setViewport({1280, 800})
SetViewport(s) ==
    /\ reqs[s].pc = "setViewport"
    /\ UNCHANGED dirs
    /\ \/ /\ Advance(s, "goto")
          /\ UNCHANGED <<files, browsers, resp>>
       \/ CaptureError(s)

\* await page.goto(url, {networkidle2, timeout 30000}): settles or times out
Goto(s) ==
    /\ reqs[s].pc = "goto"
    /\ UNCHANGED dirs
    /\ \/ /\ reqs[s].url # ""
          /\ Advance(s, "screenshot")
          /\ UNCHANGED <<files, browsers, resp>>
       \/ CaptureError(s)

\* await page.screenshot({path: filepath, fullPage}): renders and writes
ScreenshotOk(s, img) ==
    LET fp == filepath(reqs[s].time, reqs[s].testId) IN
    /\ reqs[s].pc = "screenshot"
    /\ fp.dir \in dirs
    /\ files' = WriteFile(fp, img)
    /\ Advance(s, "close")
    /\ UNCHANGED <<dirs, browsers, resp>>

ScreenshotFail(s) ==
    /\ reqs[s].pc = "screenshot"
    /\ UNCHANGED dirs
    /\ CaptureError(s)

Screenshot(s) ==
    \/ \E img \in RenderImages : ScreenshotOk(s, img)
    \/ ScreenshotFail(s)

\* await browser.close(); res.json({success: true, ...})
Close(s) ==
    /\ reqs[s].pc = "close"
    /\ browsers' = browsers - 1
    /\ resp' = [op |-> "capture", status |-> 200, success |-> TRUE,
                imagePath |-> UploadUrl(reqs[s].time, reqs[s].testId),
                time |-> reqs[s].time, testId |-> reqs[s].testId]
    /\ reqs' = [reqs EXCEPT ![s] = Idle]
    /\ UNCHANGED <<files, dirs>>

----------------------------------------------------------------------------
(* POST /api/compare: no await, the handler runs to completion *)

\* !existsSync(beforePath) || !existsSync(afterPath)
ImagesNotFound(testId) ==
    ~existsSync(beforePath(testId)) \/ ~existsSync(afterPath(testId))

\* res.status(404).json({error, details: {testId, beforeExists, afterExists}})
NotFoundResponse_swapped(testId) ==
    [op |-> "compare", status |-> 404,
     error |-> "Before/after images not found",
     testId |-> testId,
     beforeExists |-> existsSync(afterPath(testId)),
     afterExists |-> existsSync(beforePath(testId))]

NotFoundResponse(testId) ==
    [op |-> "compare", status |-> 404,
     error |-> "Before/after images not found",
     testId |-> testId,
     beforeExists |-> existsSync(beforePath(testId)),
     afterExists |-> existsSync(afterPath(testId))]

DimensionsDiffer_heightOnly(img1, img2) == img1.h # img2.h

DimensionsDiffer_and(img1, img2) == img1.w # img2.w /\ img1.h # img2.h

\* img1.width !== img2.width || img1.height !== img2.height
DimensionsDiffer(img1, img2) == img1.w # img2.w \/ img1.h # img2.h

\* (diffPixels / (width * height) * 100).toFixed(2)
diffPercentage(diffPixels, img1) == toFixed2(diffPixels, img1.w * img1.h)

Compare(testId) ==
    /\ UNCHANGED <<dirs, reqs, browsers>>
    /\ IF MissingTestId(testId)
       THEN /\ resp' = [op |-> "compare", status |-> 400,
                        error |-> "testId is required"]
            /\ UNCHANGED files
       ELSE IF ImagesNotFound(testId)
       THEN /\ resp' = NotFoundResponse(testId)
            /\ UNCHANGED files
       ELSE LET img1 == files[beforePath(testId)]
                img2 == files[afterPath(testId)]
            IN  IF DimensionsDiffer(img1, img2)
                THEN /\ resp' = [op |-> "compare", status |-> 400,
                                 error |-> "Image dimensions do not match",
                                 before |-> <<img1.w, img1.h>>,
                                 after |-> <<img2.w, img2.h>>]
                     /\ UNCHANGED files
                ELSE LET diffPixels == pixelmatch(img1, img2)
                         diff == [w |-> img1.w, h |-> img1.h, px |-> diffPixels]
                     IN  IF diffPath(testId).dir \notin dirs
                         THEN /\ resp' = [op |-> "compare", status |-> 500,
                                          error |-> "Failed to compare images"]
                              /\ UNCHANGED files
                         ELSE /\ files' = WriteFile(diffPath(testId), diff)
                              /\ resp' = [op |-> "compare", status |-> 200,
                                    success |-> TRUE,
                                    diffUrl |-> UploadUrl("diff", testId),
                                    beforeUrl |-> UploadUrl("before", testId),
                                    afterUrl |-> UploadUrl("after", testId),
                                    diffPercentage |-> diffPercentage(diffPixels, img1),
                                    testId |-> testId]

----------------------------------------------------------------------------
(* The server: any number of capture handlers in flight, compare atomic *)

Next ==
    \/ \E s \in Slots, url \in Urls, time \in Times, testId \in TestIds :
          CaptureRequest(s, url, time, testId) /\ UNCHANGED log
    \/ \E s \in Slots : Launch(s) /\ UNCHANGED log
    \/ \E s \in Slots : NewPage(s) /\ UNCHANGED log
    \/ \E s \in Slots : SetViewport(s) /\ UNCHANGED log
    \/ \E s \in Slots : Goto(s) /\ UNCHANGED log
    \/ \E s \in Slots : Screenshot(s) /\ UNCHANGED log
    \/ \E s \in Slots : Close(s) /\ UNCHANGED log

Spec == Init /\ [][Next]_vars

----------------------------------------------------------------------------
(* The comparator alone, started on any uploads directory that captures    *)
(* of t1 (and of "../diff/t1") can have left behind                        *)

StorePaths == {beforePath(<<"t1">>), afterPath(<<"t1">>), diffPath(<<"t1">>)}

Stores == UNION { [D -> StoreImages] : D \in SUBSET StorePaths }

InitCompare ==
    /\ files \in Stores
    /\ dirs = IF DOMAIN files = {} THEN {}
              ELSE {baseDir, diffDir} \cup { p.dir : p \in DOMAIN files }
    /\ reqs = [s \in Slots |-> Idle]
    /\ browsers = 0
    /\ resp = NoResp
    /\ log = << >>

NextCompare == \E testId \in TestIds : Compare(testId) /\ UNCHANGED log

SpecCompare == InitCompare /\ [][NextCompare]_vars

----------------------------------------------------------------------------
(* One client issuing MaxCalls calls one after the other; log records each *)
(* call, its outcome and, for a capture, the image the browser rendered    *)

SeqSlot == "r1"

AllIdle == \A s \in Slots : reqs[s].pc = "idle"

CaptureEntry(status, img) ==
    [op |-> "capture", time |-> reqs[SeqSlot].time,
     testId |-> reqs[SeqSlot].testId, status |-> status, img |-> img]

\* a step that failed has answered 500
LogStep ==
    log' = IF reqs'[SeqSlot].pc = "idle"
           THEN Append(log, CaptureEntry(resp'.status, NoImg))
           ELSE log

SeqCaptureRequest ==
    \E url \in SeqUrls, time \in Labels, testId \in TestIds :
        /\ AllIdle
        /\ Len(log) < MaxCalls
        /\ CaptureRequest(SeqSlot, url, time, testId)
        /\ log' = IF reqs'[SeqSlot].pc = "idle"
                  THEN Append(log, [op |-> "capture", time |-> time,
                                    testId |-> testId,
                                    status |-> resp'.status, img |-> NoImg])
                  ELSE log

SeqLaunch == Launch(SeqSlot) /\ LogStep
SeqNewPage == NewPage(SeqSlot) /\ LogStep
SeqSetViewport == SetViewport(SeqSlot) /\ LogStep
SeqGoto == Goto(SeqSlot) /\ LogStep

SeqScreenshot ==
    \/ \E img \in RenderImages :
          /\ ScreenshotOk(SeqSlot, img)
          /\ log' = Append(log, CaptureEntry(0, img))
    \/ ScreenshotFail(SeqSlot) /\ LogStep

SeqClose ==
    /\ Close(SeqSlot)
    /\ log' = [log EXCEPT ![Len(log)].status = resp'.status]

SeqCompare ==
    \E testId \in TestIds :
        /\ AllIdle
        /\ Len(log) < MaxCalls
        /\ Compare(testId)
        /\ log' = Append(log, [op |-> "compare", time |-> "",
                               testId |-> testId,
                               status |-> resp'.status, img |-> NoImg])

NextSeq ==
    \/ SeqCaptureRequest
    \/ SeqLaunch
    \/ SeqNewPage
    \/ SeqSetViewport
    \/ SeqGoto
    \/ SeqScreenshot
    \/ SeqClose
    \/ SeqCompare

SpecSeq == Init /\ [][NextSeq]_vars

----------------------------------------------------------------------------
(* Properties of the capture handler, under Spec *)

InFlight(s) == reqs[s].pc # "idle"

\* C1: whenever no capture request is in flight, no browser session is open
\* (every session a handler launched was closed before it answered)
C1_SessionsReleased == AllIdle => browsers = 0

\* the condition under which the capture contract demands a validation error
Rejectable(url, time, testId) ==
    url = "" \/ time = "" \/ time \notin {"before", "after"} \/ testId = <<>>

\* C2: a capture request with url, time or testId absent, or time outside
\* {before, after}, is answered 400, the request ends there (no browser is
\* launched for it) and no file is written
C2_InvalidCaptureRejected ==
    [][\A s \in Slots, url \in Urls, time \in Times, testId \in TestIds :
         (CaptureRequest(s, url, time, testId) /\ Rejectable(url, time, testId))
            => /\ resp'.op = "capture"
               /\ resp'.status = 400
               /\ reqs'[s].pc = "idle"
               /\ browsers' = browsers
               /\ files' = files]_vars

C2_Witness ==
    /\ resp.op = "capture"
    /\ resp.status = 400
    /\ resp.error = "testId is required"
    /\ \E s \in Slots : reqs[s].pc = "close"

\* C5: two capture requests with distinct testIds that have both written
\* their screenshot have written different files
C5_DistinctTestIdsDistinctFiles ==
    \A s1 \in Slots, s2 \in Slots :
        (/\ s1 # s2
         /\ reqs[s1].pc = "close"
         /\ reqs[s2].pc = "close"
         /\ reqs[s1].testId # reqs[s2].testId)
            => filepath(reqs[s1].time, reqs[s1].testId)
                 # filepath(reqs[s2].time, reqs[s2].testId)

\* C10: a validated capture request that fails at launch, newPage,
\* setViewport or goto is answered 500 and changes no stored file; before
\* its screenshot step a request changes nothing but the three directories
C10_FailedCaptureKeepsFiles ==
    [][\A s \in Slots :
         /\ (reqs[s].pc \in {"launch", "newPage", "setViewport", "goto"}
                /\ reqs'[s].pc = "idle")
              => /\ resp'.op = "capture"
                 /\ resp'.status = 500
                 /\ files' = files
                 /\ dirs' = dirs
         /\ (reqs[s].pc \in {"launch", "newPage", "setViewport", "goto"}
                /\ reqs'[s].pc # reqs[s].pc)
              => files' = files /\ dirs' = dirs
         /\ (reqs[s].pc = "idle" /\ reqs'[s].pc = "launch")
              => /\ files' = files
                 /\ dirs \subseteq dirs'
                 /\ dirs' \ dirs \subseteq
                      { <<"app", "uploads">>, <<"app", "uploads", "diff">>,
                        <<"app", "uploads", reqs'[s].time>> }]_vars

\* a request failed while an image was already stored at its key
C10_Witness ==
    /\ resp.op = "capture"
    /\ resp.status = 500
    /\ AllIdle
    /\ DOMAIN files # {}

----------------------------------------------------------------------------
(* Properties of the compare handler, under SpecCompare *)

GivenTestIds == TestIds \ { <<>> }

Dims(img) == <<img.w, img.h>>

\* C3: when the before or the after image of testId is absent, compare
\* answers 404, reports for each side whether it exists in the store, and
\* leaves the store (the diff file included) as it was
C3_MissingImageNotFound ==
    [][\A t \in GivenTestIds :
         (/\ Compare(t)
          /\ (beforePath(t) \notin DOMAIN files \/ afterPath(t) \notin DOMAIN files))
            => /\ resp'.status = 404
               /\ resp'.testId = t
               /\ resp'.beforeExists = (beforePath(t) \in DOMAIN files)
               /\ resp'.afterExists = (afterPath(t) \in DOMAIN files)
               /\ files' = files]_vars

\* a 404 that reports exactly one side missing, with an older diff in place
C3_Witness ==
    /\ resp.op = "compare"
    /\ resp.status = 404
    /\ resp.beforeExists
    /\ ~resp.afterExists
    /\ diffPath(<<"t1">>) \in DOMAIN files

\* C4: when both images exist but differ in width or height, compare
\* answers 400 with both dimension pairs and leaves the store as it was;
\* the store changes only on a compare of two images of equal dimensions,
\* and then only at the diff path
C4_DimensionMismatchRejected ==
    [][\A t \in GivenTestIds :
         Compare(t) =>
           /\ (/\ beforePath(t) \in DOMAIN files
               /\ afterPath(t) \in DOMAIN files
               /\ Dims(files[beforePath(t)]) # Dims(files[afterPath(t)]))
                 => /\ resp'.status = 400
                    /\ resp'.error = "Image dimensions do not match"
                    /\ resp'.before = Dims(files[beforePath(t)])
                    /\ resp'.after = Dims(files[afterPath(t)])
                    /\ files' = files
           /\ files' # files
                 => /\ resp'.status = 200
                    /\ beforePath(t) \in DOMAIN files
                    /\ afterPath(t) \in DOMAIN files
                    /\ Dims(files[beforePath(t)]) = Dims(files[afterPath(t)])
                    /\ \A p \in DOMAIN files :
                          p # diffPath(t) => files'[p] = files[p]]_vars

\* a mismatch answer for two images of equal height and different width
C4_Witness ==
    /\ resp.op = "compare"
    /\ resp.status = 400
    /\ resp.error = "Image dimensions do not match"
    /\ resp.before[1] # resp.after[1]
    /\ resp.before[2] = resp.after[2]
    /\ diffPath(<<"t1">>) \in DOMAIN files

\* C9: a successful compare of two w x h images with k differing pixels
\* returns k / (w*h) * 100 rounded to the nearest hundredth, as a string
\* with two fraction digits: "0.00" for k = 0, "100.00" for k = w*h; the
\* diff image written is w x h
C9_PercentageRounded ==
    [][\A t \in GivenTestIds :
         (Compare(t) /\ resp'.status = 200) =>
            LET img1 == files[beforePath(t)]
                img2 == files[afterPath(t)]
                n == img1.w * img1.h
                k == pixelmatch(img1, img2)
                str == resp'.diffPercentage
                c == ParseFixed2(str)
            IN  /\ 0 <= k /\ k <= n
                /\ str[2] \in 0..9 /\ str[3] \in 0..9
                /\ 2 * Abs(c * n - k * 10000) <= n
                /\ (k = 0 => str = <<0, 0, 0>>)
                /\ (k = n => str = <<100, 0, 0>>)
                /\ Dims(files'[diffPath(t)]) = <<img1.w, img1.h>>]_vars

\* two of three pixels differ: "66.67"
C9_Witness ==
    /\ resp.op = "compare"
    /\ resp.status = 200
    /\ resp.diffPercentage = <<66, 6, 7>>

----------------------------------------------------------------------------
(* Properties of call sequences, under SpecSeq *)

Last(n) == log[Len(log) - n]

OkCapture(e, time, testId) ==
    /\ e.op = "capture"
    /\ e.status = 200
    /\ e.time = time
    /\ e.testId = testId

\* C6: after two successful captures in a row with the same (time, testId)
\* the file at that key holds the image of the second
C6_SecondCaptureOverwrites ==
    (/\ AllIdle
     /\ Len(log) >= 2
     /\ Last(0).op = "capture"
     /\ Last(0).status = 200
     /\ OkCapture(Last(1), Last(0).time, Last(0).testId))
        => /\ filepath(Last(0).time, Last(0).testId) \in DOMAIN files
           /\ files[filepath(Last(0).time, Last(0).testId)] = Last(0).img

\* two such captures whose renders differ
C6_Witness ==
    /\ AllIdle
    /\ Len(log) >= 2
    /\ Last(0).op = "capture"
    /\ Last(0).status = 200
    /\ OkCapture(Last(1), Last(0).time, Last(0).testId)
    /\ Last(1).img # Last(0).img

UnderLabel(p) ==
    \E l \in Labels :
        /\ Len(p.dir) >= Len(timeDir(l))
        /\ SubSeq(p.dir, 1, Len(timeDir(l))) = timeDir(l)

\* C7: no step removes a stored file, and a compare leaves every file under
\* the before and after directories as it was
C7_CompareKeepsCaptures ==
    [][/\ \A p \in DOMAIN files : p \in DOMAIN files'
       /\ \A t \in GivenTestIds :
            Compare(t) =>
              \A p \in DOMAIN files : UnderLabel(p) => files'[p] = files[p]]_vars

\* the last three calls: capture before, capture after, compare, one testId
EndToEnd ==
    /\ AllIdle
    /\ Len(log) >= 3
    /\ Last(0).op = "compare"
    /\ OkCapture(Last(1), "after", Last(0).testId)
    /\ OkCapture(Last(2), "before", Last(0).testId)

CompareSucceeded(t) ==
    /\ resp.op = "compare"
    /\ resp.status = 200
    /\ resp.success
    /\ resp.testId = t
    /\ resp.beforeUrl = [segs |-> <<"uploads", "before">> \o t, ext |-> "png"]
    /\ resp.afterUrl = [segs |-> <<"uploads", "after">> \o t, ext |-> "png"]
    /\ resp.diffUrl = [segs |-> <<"uploads", "diff">> \o t, ext |-> "png"]
    /\ ParseFixed2(resp.diffPercentage) >= 0
    /\ ParseFixed2(resp.diffPercentage) <= 10000

\* C8 as stated: capture before, capture after, compare always ends in
\* success with the three URLs and a percentage within 0.00 .. 100.00
C8_EndToEndSucceeds == EndToEnd => CompareSucceeded(Last(0).testId)

\* the image compare finds at the before path: the first capture's, unless
\* both captures resolve to one file
StoredBefore ==
    IF filepath("before", Last(0).testId) = filepath("after", Last(0).testId)
    THEN Last(1).img
    ELSE Last(2).img

\* C8 amended: the sequence ends in success when the stored before and
\* after images have equal width and height, and in the 400 dimension
\* mismatch answer when they do not
C8_EndToEndByDimensions ==
    EndToEnd =>
        IF Dims(StoredBefore) = Dims(Last(1).img)
        THEN CompareSucceeded(Last(0).testId)
        ELSE /\ resp.op = "compare"
             /\ resp.status = 400
             /\ resp.error = "Image dimensions do not match"

\* the sequence ending in success with a non-zero difference
C8_Witness ==
    /\ EndToEnd
    /\ resp.status = 200
    /\ ParseFixed2(resp.diffPercentage) > 0

====
